---------------------------- MODULE Spec2Model ----------------------------
(***************************************************************************)
(* A model of the polled UART driver of bdk/soc/uart.c.                    *)
(*                                                                         *)
(* The driver keeps no software state: everything lives in the registers   *)
(* of the UART block (MCR, LCR, IER, the divisor latch, IRDA_CSR, the two  *)
(* FIFOs behind THR/RBR and the status bits of LSR) and in the free        *)
(* running microsecond counter.  Each driver function is a sequence of     *)
(* register accesses; one action of the model is one register access       *)
(* together with the computation on locals that follows it, so that the    *)
(* hardware (bytes arriving, the transmitter shifting, the counter         *)
(* advancing) can act between any two accesses.                            *)
(***************************************************************************)
EXTENDS Integers, Sequences, FiniteSets, TLC

(***************************************************************************)
(* Bounds of the model.                                                    *)
(***************************************************************************)
MaxLen == 2        \* largest len passed to uart_recv
FifoDepth == 2     \* bytes the receive FIFO holds
MaxArrive == 3     \* bytes a call is offered: those in the FIFO at entry and those arriving
IirWidth == 4      \* bits of the interrupt identification register that are modelled

(***************************************************************************)
(* Program constants.                                                      *)
(***************************************************************************)
Timeout == 250     \* uart_recv: get_tmr_us() + 250
MaxTries == 10     \* uart_empty_fifo: tries < 10
PollSleep == 100   \* uart_empty_fifo: usleep(100)

(***************************************************************************)
(* u32 values.  The counter and the deadline are 32 bit unsigned; a value  *)
(* v is held as its two 16 bit halves, v = hi * 2^16 + lo, so that the     *)
(* arithmetic modulo 2^32 is exact.                                        *)
(***************************************************************************)
Half == 2 ^ 16

U32Zero == [hi |-> 0, lo |-> 0]

\* 2^32 - k, for 1 <= k <= 2^16
U32FromTop(k) == [hi |-> Half - 1, lo |-> Half - k]

\* x + n modulo 2^32, for 0 <= n < 2^16
U32Add(x, n) ==
    IF x.lo + n < Half
    THEN [hi |-> x.hi, lo |-> x.lo + n]
    ELSE [hi |-> (x.hi + 1) % Half, lo |-> x.lo + n - Half]

\* x + n does not fit in 32 bits
U32Carry(x, n) == x.hi = Half - 1 /\ x.lo + n >= Half

\* a < b as unsigned 32 bit values
U32Lt(a, b) == a.hi < b.hi \/ (a.hi = b.hi /\ a.lo < b.lo)

\* the u32 of the number n, 0 <= n < 2^31
U32Of(n) == [hi |-> (n \div Half) % Half, lo |-> n % Half]

\* x * k modulo 2^32, for 0 <= k < 2^8
U32Times(x, k) ==
    LET p == x.lo * k IN [hi |-> (x.hi * k + p \div Half) % Half, lo |-> p % Half]

\* x + y modulo 2^32
U32Plus(x, y) ==
    LET s == x.lo + y.lo IN [hi |-> (x.hi + y.hi + s \div Half) % Half, lo |-> s % Half]

\* bit k of x, 0 <= k < 32
U32Bit(x, k) == IF k < 16 THEN (x.lo \div 2 ^ k) % 2 ELSE (x.hi \div 2 ^ (k - 16)) % 2

\* Unsigned division, bit by bit from the top.  The partial remainder r is
\* below d, so 2 * r + 1 needs 33 bits: hi may pass 2^16 in r.
WDouble(r, b) ==
    LET l == 2 * r.lo + b IN [hi |-> 2 * r.hi + l \div Half, lo |-> l % Half]

WGe(a, b) == a.hi > b.hi \/ (a.hi = b.hi /\ a.lo >= b.lo)

WSub(a, b) ==
    IF a.lo >= b.lo
    THEN [hi |-> a.hi - b.hi, lo |-> a.lo - b.lo]
    ELSE [hi |-> a.hi - b.hi - 1, lo |-> a.lo + Half - b.lo]

\* one step: the remainder so far is r2, the quotient so far is q
DivStep(d, q, r2) ==
    IF WGe(r2, d)
    THEN [q |-> WDouble(q, 1), r |-> WSub(r2, d)]
    ELSE [q |-> WDouble(q, 0), r |-> r2]

RECURSIVE U32DivFrom(_, _, _, _, _)
U32DivFrom(n, d, k, q, r) ==
    IF k < 0
    THEN q
    ELSE CHOOSE res \in { U32DivFrom(n, d, j, s.q, s.r) :
                              j \in {k - 1},
                              s \in {DivStep(d, q, WDouble(r, U32Bit(n, k)))} } : TRUE

\* n / d as u32 values, d # 0
U32Div(n, d) ==
    CHOOSE res \in { U32DivFrom(nn, dd, 31, U32Zero, U32Zero) :
                         nn \in {n}, dd \in {d} } : TRUE

(***************************************************************************)
(* Register bits, by name.  A register value is the set of its bits that   *)
(* are 1; x | m is union, x & ~m is set difference, x & m is intersection. *)
(***************************************************************************)
CsrBits == {"INVERT_RXD", "INVERT_TXD", "INVERT_CTS", "INVERT_RTS"}

ByteSet == {65, 84}
NoByte == 0 - 1

\* the bytes of "AT\r\n"
Msg == <<65, 84, 13, 10>>

\* bit positions of the interrupt identification register
IirBits == 0 .. IirWidth - 1

BufTop == IF MaxArrive > Len(Msg) THEN MaxArrive ELSE Len(Msg)

VARIABLES
    \* hardware
    MCR,        \* modem control register
    IRDA_CSR,   \* polarity inversion register
    rx,         \* receive FIFO, head first; LSR.RDR is rx # <<>>
    tmr,        \* the microsecond counter (u32)
    \* the call in progress
    pc,         \* position in the driver; "idle" between calls
    op,         \* the function called last
    len,        \* uart_recv: len
    buf,        \* uart_recv: the caller's buffer, NoByte where never written
    i,          \* uart_recv: i
    timeout,    \* uart_recv: timeout (u32)
    manual_mode,\* uart_recv: manual_mode
    ret,        \* the value returned by the last call
    \* history of the call, for stating properties
    since,      \* microseconds since the deadline was last computed
    wrapped,    \* the deadline, or the counter since, passed 2^32
    exitBy,     \* uart_recv: "none", "count" or "timeout"
    presented,  \* uart_recv: bytes read from the receive register, in order
    sawClear,   \* uart_recv: some LSR poll found data-ready clear
    injected,   \* uart_recv: the FIFO at entry, then the bytes delivered, in order
    mcrIn,      \* MCR when the call was entered
    mcrWrites,  \* writes to MCR made by the call
    \* uart_invert
    invLog,     \* the last two calls: enable, mask, IRDA_CSR before and after
    \* more hardware
    LCR,        \* line control register
    IER,        \* interrupt enable register
    DLL,        \* divisor latch, low byte
    DLM,        \* divisor latch, high byte
    FCR,        \* the value last written to the FIFO control register
    tx,         \* transmit FIFO, head first
    txShift,    \* the byte in the transmit shift register, <<>> when idle
    loopback,   \* the transmit line is wired to the receive line
    rxCap,      \* bytes the receive FIFO holds before it overruns
    stuck,      \* the transmitter is wedged: it sends nothing
    \* uart_empty_fifo
    which,      \* which
    tries,      \* tries
    pollsTx,    \* LSR reads made by the transmitter loop
    pollsRx,    \* LSR reads made by the receiver loop
    naps,       \* calls of usleep(100)
    gaveUp,     \* the loops that ended with their tries used up
    \* uart_init
    baud,       \* baud
    mode,       \* mode
    clk_type,   \* clk_type
    lcr_stop,   \* uart_lcr_stop
    div,        \* div
    \* uart_wait_xfer
    wwhich,     \* which
    wret,       \* where the call returns to
    \* uart_send
    sbuf,       \* buf
    slen,       \* len
    si,         \* i
    sent,       \* bytes that entered the transmit FIFO during the call, in order
    \* uart_send and uart_wait_xfer: history of the call
    lastLsr,    \* the LSR value last read, NoRead at entry and after a data write
    seenLsr,    \* the LSR bits some read of the call found set
    touched,    \* the call has accessed a register
    steps,      \* uart_init: the hardware steps of the call so far, in order
    \* uart_get_IIR
    IIR,        \* interrupt identification register: the bit positions that are 1
    intMask,    \* UART_IIR_INT_MASK: the bit positions the mask keeps
    noInt,      \* UART_IIR_NO_INT: the position of the "no interrupt pending" bit
    iirIn,      \* the register value the last uart_get_IIR read
    \* uart_set_mode
    mcrBy       \* the function called last among those that assign MCR outright

hwVars == <<MCR, IRDA_CSR, rx, tmr>>
recvVars == <<len, buf, i, timeout, manual_mode>>
histVars == <<since, wrapped, exitBy, presented, sawClear, injected, mcrIn, mcrWrites>>
invVars == <<invLog>>
cfgRegs == <<LCR, IER, DLL, DLM, FCR>>
txVars == <<tx, txShift, loopback, rxCap, stuck>>
initVars == <<baud, mode, clk_type, lcr_stop, div>>
waitVars == <<wwhich, wret>>
sendVars == <<sbuf, slen, si, sent>>
pollVars == <<lastLsr, seenLsr, touched>>
progRest == <<initVars, waitVars, sendVars, pollVars, steps>>
fifoVars == <<which, tries, pollsTx, pollsRx, naps, gaveUp>>
iirVars == <<IIR, intMask, noInt, iirIn>>
\* what uart_recv, the counter and the receive line leave alone
otherVars == <<invVars, cfgRegs, txVars, fifoVars, progRest, iirVars, mcrBy>>
\* what uart_invert leaves alone, besides the registers and uart_recv's variables
invRest == <<cfgRegs, txVars, fifoVars, progRest, iirVars, mcrBy>>
\* what uart_empty_fifo leaves alone, besides uart_recv's variables
fifoRest == <<invVars, LCR, IER, DLL, DLM, loopback, rxCap, stuck, progRest, iirVars, mcrBy>>
vars == <<hwVars, pc, op, ret, recvVars, histVars, otherVars>>

(***************************************************************************)
(* The hardware.                                                           *)
(***************************************************************************)
HalfWindow == Timeout \div 2

\* how far the counter may advance between two steps of the driver
TickSet == {HalfWindow}

\* counter values a call may be entered at: far from 2^32, and the values
\* around 2^32 - 250 at which the deadline or the counter wraps
TmrEntries ==
    { U32Zero,
      U32FromTop(Timeout + HalfWindow + 1),
      U32FromTop(Timeout + 1),
      U32FromTop(Timeout) }

LSR_RDR == rx # <<>>

\* The counter advances by d.  Only the time up to the first instant past
\* the deadline window is followed.
Tick(d) ==
    /\ pc # "idle"
    /\ since <= Timeout
    /\ tmr' = U32Add(tmr, d)
    /\ since' = since + d
    /\ wrapped' = (wrapped \/ U32Carry(tmr, d))
    /\ UNCHANGED <<otherVars, MCR, IRDA_CSR, rx, pc, op, ret, recvVars, exitBy,
                   presented, sawClear, injected, mcrIn, mcrWrites>>

\* The line delivers byte b into the receive FIFO.
HwRx(b) ==
    /\ pc # "idle"
    /\ Len(rx) < rxCap
    /\ Len(injected) < MaxArrive
    /\ rx' = Append(rx, b)
    /\ injected' = Append(injected, b)
    /\ UNCHANGED <<otherVars, MCR, IRDA_CSR, tmr, pc, op, ret, recvVars, since, wrapped,
                   exitBy, presented, sawClear, mcrIn, mcrWrites>>

\* LSR bits of the transmitter: the FIFO is empty; the FIFO and the shift
\* register are both empty
LSR_THRE == tx = <<>>
LSR_TMTY == tx = <<>> /\ txShift = <<>>

\* the line status register: the bits that are set
LSR ==
    (IF LSR_RDR THEN {"RDR"} ELSE {}) \cup (IF LSR_THRE THEN {"THRE"} ELSE {})
        \cup (IF LSR_TMTY THEN {"TMTY"} ELSE {})

\* no LSR read yet
NoRead == {"none"}

\* The transmitter moves the head of its FIFO into the idle shift register.
HwTxLoad ==
    /\ ~stuck
    /\ txShift = <<>>
    /\ tx # <<>>
    /\ txShift' = <<Head(tx)>>
    /\ tx' = Tail(tx)
    /\ UNCHANGED <<hwVars, pc, op, ret, recvVars, histVars, invVars, cfgRegs,
                   loopback, rxCap, stuck, fifoVars, progRest, iirVars, mcrBy>>

\* The shift register has sent its byte; on a looped line the byte enters the
\* receive FIFO, and is lost when that is full.
HwTxOut ==
    /\ ~stuck
    /\ txShift # <<>>
    /\ txShift' = <<>>
    /\ rx' = IF loopback /\ Len(rx) < rxCap THEN Append(rx, txShift[1]) ELSE rx
    /\ UNCHANGED <<MCR, IRDA_CSR, tmr, pc, op, ret, recvVars, histVars, invVars,
                   cfgRegs, tx, loopback, rxCap, stuck, fifoVars, progRest, iirVars,
                   mcrBy>>

\* THR_DLAB and IER_DLAB are two registers each: with LCR.DLAB set they are the
\* divisor latch, with it clear the data register and the interrupt enable
\* register.  A write of v to IER_DLAB:
IerWrite(v) ==
    IF "DLAB" \in LCR THEN DLM' = v /\ IER' = IER ELSE IER' = v /\ DLM' = DLM

\* a write of v to THR_DLAB
ThrWrite(v) ==
    IF "DLAB" \in LCR THEN DLL' = v /\ tx' = tx ELSE tx' = Append(tx, v) /\ DLL' = DLL

\* the register a write to IER_DLAB, to THR_DLAB lands in
IerName == IF "DLAB" \in LCR THEN "DLM" ELSE "IER"
ThrName == IF "DLAB" \in LCR THEN "DLL" ELSE "THR"

\* a read of THR_DLAB: the value read, and the receive FIFO after the read
RbrValue == IF "DLAB" \in LCR THEN DLL ELSE IF rx = <<>> THEN 0 ELSE Head(rx)
RbrRest == IF "DLAB" \in LCR \/ rx = <<>> THEN rx ELSE Tail(rx)

\* a write of v to the FIFO control register: the FIFOs named are emptied
FcrRx(v, q) == IF "RX_CLR" \in v THEN <<>> ELSE q
FcrTx(v, q) == IF "TX_CLR" \in v THEN <<>> ELSE q

(***************************************************************************)
(* uart_recv                                                               *)
(***************************************************************************)
\* line 102 and 118: timeout = get_tmr_us() + 250
Deadline(now) == U32Add(now, Timeout)

\* a single window for the whole call: the deadline is not moved
Rearm_Fixed(t, now) == t

\* line 118: timeout = get_tmr_us() + 250, after a byte was read
Rearm(t, now) == Deadline(now)

\* the comparison the other way round
TimedOut_Reversed(t, now) == U32Lt(now, t)

\* line 114: timeout < get_tmr_us()
TimedOut(t, now) == U32Lt(t, now)

\* one byte too many: len < i
LoopDone_OffByOne(l, k) == l # 0 /\ l < k

\* the count is never tested
LoopDone_Never(l, k) == FALSE

\* len == 0 is not special: len <= i
LoopDone_ZeroStops(l, k) == l <= k

\* line 110: len && len <= i
LoopDone(l, k) == l # 0 /\ l <= k

\* lines 105-106: if (manual_mode) MCR &= ~RTS
RtsDeassert(mcr, mm) == IF mm THEN mcr \ {"RTS"} ELSE mcr

\* RTS is not given back
RtsAssert_Skipped(mcr, mm) == mcr

\* RTS is written alone: MCR = RTS instead of MCR |= RTS
RtsAssert_Only(mcr, mm) == IF mm THEN {"RTS"} ELSE mcr

\* lines 122-123: if (manual_mode) MCR |= RTS
RtsAssert(mcr, mm) == IF mm THEN mcr \cup {"RTS"} ELSE mcr

\* uart_recv(idx, buf, l) is entered with the counter at t
uart_recv_enter(l, t) ==
    /\ pc = "idle"
    /\ len' = l
    /\ tmr' = t
    /\ pc' = "recv_101"
    /\ op' = "uart_recv"
    /\ buf' = [k \in 0 .. BufTop |-> NoByte]
    /\ i' = 0
    /\ timeout' = U32Zero
    /\ manual_mode' = FALSE
    /\ ret' = 0
    /\ since' = 0
    /\ wrapped' = FALSE
    /\ exitBy' = "none"
    /\ presented' = <<>>
    /\ sawClear' = FALSE
    /\ injected' = rx
    /\ mcrIn' = MCR
    /\ mcrWrites' = 0
    /\ UNCHANGED <<otherVars, MCR, IRDA_CSR, rx>>

\* the call: uart_recv(idx, buf, len), entered at any counter value
uart_recv_call == \E l \in 0 .. MaxLen, t \in TmrEntries : uart_recv_enter(l, t)

\* line 101: bool manual_mode = uart->UART_MCR & UART_MCR_RTS
uart_recv_101 ==
    /\ pc = "recv_101"
    /\ manual_mode' = ("RTS" \in MCR)
    /\ pc' = "recv_102"
    /\ UNCHANGED <<otherVars, hwVars, op, ret, len, buf, i, timeout, histVars>>

\* line 102: u32 timeout = get_tmr_us() + 250
uart_recv_102 ==
    /\ pc = "recv_102"
    /\ timeout' = Deadline(tmr)
    /\ since' = 0
    /\ wrapped' = U32Carry(tmr, Timeout)
    /\ pc' = "recv_105"
    /\ UNCHANGED <<otherVars, hwVars, op, ret, len, buf, i, manual_mode, exitBy,
                   presented, sawClear, injected, mcrIn, mcrWrites>>

\* lines 105-111: deassert RTS, then the first test of the loop
uart_recv_105 ==
    /\ pc = "recv_105"
    /\ MCR' = RtsDeassert(MCR, manual_mode)
    /\ mcrWrites' = IF manual_mode THEN mcrWrites + 1 ELSE mcrWrites
    /\ IF LoopDone(len, i)
       THEN pc' = "recv_122" /\ exitBy' = "count"
       ELSE pc' = "recv_113" /\ exitBy' = exitBy
    /\ UNCHANGED <<otherVars, IRDA_CSR, rx, tmr, op, ret, recvVars, since, wrapped,
                   presented, sawClear, injected, mcrIn>>

\* line 113: while (!(uart->UART_LSR & UART_LSR_RDR))
uart_recv_113 ==
    /\ pc = "recv_113"
    /\ IF LSR_RDR
       THEN pc' = "recv_117" /\ sawClear' = sawClear
       ELSE pc' = "recv_114" /\ sawClear' = TRUE
    /\ UNCHANGED <<otherVars, hwVars, op, ret, recvVars, since, wrapped, exitBy,
                   presented, injected, mcrIn, mcrWrites>>

\* lines 114-115: if (timeout < get_tmr_us()) goto out
uart_recv_114 ==
    /\ pc = "recv_114"
    /\ IF TimedOut(timeout, tmr)
       THEN pc' = "recv_122" /\ exitBy' = "timeout"
       ELSE pc' = "recv_113" /\ exitBy' = exitBy
    /\ UNCHANGED <<otherVars, hwVars, op, ret, recvVars, since, wrapped, presented,
                   sawClear, injected, mcrIn, mcrWrites>>

\* line 117: buf[i] = uart->UART_THR_DLAB
uart_recv_117 ==
    /\ pc = "recv_117"
    /\ buf' = [buf EXCEPT ![i] = RbrValue]
    /\ presented' = Append(presented, RbrValue)
    /\ rx' = RbrRest
    /\ pc' = "recv_118"
    /\ UNCHANGED <<otherVars, MCR, IRDA_CSR, tmr, op, ret, len, i, timeout, manual_mode,
                   since, wrapped, exitBy, sawClear, injected, mcrIn,
                   mcrWrites>>

\* lines 118, 108, 110: timeout = get_tmr_us() + 250; i++; the loop test
uart_recv_118 ==
    /\ pc = "recv_118"
    /\ timeout' = Rearm(timeout, tmr)
    /\ since' = 0
    /\ wrapped' = U32Carry(tmr, Timeout)
    /\ i' = i + 1
    /\ IF LoopDone(len, i + 1)
       THEN pc' = "recv_122" /\ exitBy' = "count"
       ELSE pc' = "recv_113" /\ exitBy' = exitBy
    /\ UNCHANGED <<otherVars, hwVars, op, ret, len, buf, manual_mode, presented,
                   sawClear, injected, mcrIn, mcrWrites>>

\* lines 121-125: out: reassert RTS; return i
uart_recv_122 ==
    /\ pc = "recv_122"
    /\ MCR' = RtsAssert(MCR, manual_mode)
    /\ mcrWrites' = IF manual_mode THEN mcrWrites + 1 ELSE mcrWrites
    /\ ret' = i
    /\ pc' = "idle"
    /\ UNCHANGED <<otherVars, IRDA_CSR, rx, tmr, op, recvVars, since, wrapped, exitBy,
                   presented, sawClear, injected, mcrIn>>

uart_recv ==
    \/ uart_recv_101
    \/ uart_recv_102
    \/ uart_recv_105
    \/ uart_recv_113
    \/ uart_recv_114
    \/ uart_recv_117
    \/ uart_recv_118
    \/ uart_recv_122

(***************************************************************************)
(* The receive specification: calls of uart_recv against a line that       *)
(* delivers bytes at any time and a counter that advances at any time.     *)
(***************************************************************************)
InitHist ==
    /\ since = 0
    /\ wrapped = FALSE
    /\ exitBy = "none"
    /\ presented = <<>>
    /\ sawClear = FALSE
    /\ injected = <<>>
    /\ mcrWrites = 0

\* no call was made yet
InitDriver ==
    /\ pc = "idle"
    /\ op = "none"
    /\ ret = 0
    /\ len = 0
    /\ buf = [k \in 0 .. BufTop |-> NoByte]
    /\ i = 0
    /\ timeout = U32Zero
    /\ manual_mode = FALSE
    /\ mcrIn = MCR
    /\ InitHist
    /\ invLog = <<>>
    /\ which = {}
    /\ tries = 0
    /\ pollsTx = 0
    /\ pollsRx = 0
    /\ naps = 0
    /\ gaveUp = {}
    /\ baud = U32Zero
    /\ mode = {}
    /\ clk_type = FALSE
    /\ lcr_stop = {}
    /\ div = U32Zero
    /\ wwhich = {}
    /\ wret = "idle"
    /\ sbuf = <<>>
    /\ slen = 0
    /\ si = 0
    /\ sent = <<>>
    /\ lastLsr = NoRead
    /\ seenLsr = {}
    /\ touched = FALSE
    /\ steps = <<>>
    /\ iirIn = {}
    /\ mcrBy = "none"

\* no interrupt is pending
IirAtRest ==
    /\ noInt = 0
    /\ intMask = IirBits
    /\ IIR = {noInt}

InitLocals == InitDriver /\ IirAtRest

\* the registers as uart_init leaves them, nothing in the transmitter
InitRegs ==
    /\ LCR = {"WORD_LENGTH_8"}
    /\ IER = 0
    /\ DLL = 0
    /\ DLM = 0
    /\ FCR = {"EN_FIFO"}
    /\ tx = <<>>
    /\ txShift = <<>>
    /\ loopback = FALSE
    /\ rxCap = FifoDepth
    /\ stuck = FALSE

InitRecv ==
    /\ MCR \in {{}, {"RTS", "DTR"}, {"CTS_EN"}}
    /\ IRDA_CSR = {}
    /\ rx = <<>>
    /\ tmr = U32Zero
    /\ InitRegs
    /\ InitLocals

NextRecv ==
    \/ uart_recv_call
    \/ uart_recv
    \/ \E d \in TickSet : Tick(d)
    \/ \E b \in ByteSet : HwRx(b)

SpecRecv == InitRecv /\ [][NextRecv]_vars

\* The driver runs and the counter counts: a call in progress takes its next
\* step, and time passes.
FairSpecRecv ==
    /\ SpecRecv
    /\ WF_vars(uart_recv)
    /\ WF_vars(\E d \in TickSet : Tick(d))

(***************************************************************************)
(* Properties of uart_recv.                                                *)
(***************************************************************************)
RecvLoop == {"recv_113", "recv_114", "recv_117", "recv_118"}

\* the receive FIFO held a byte at some time in the call
hadData == injected # <<>>

RecvReturned == op = "uart_recv" /\ pc = "idle"

BufUntouched == \A k \in 0 .. BufTop : buf[k] = NoByte

\* C1: a uart_recv call entered with MCR.RTS set has RTS clear in MCR at every
\* poll of the receive loop and up to the out label, and has RTS set again in
\* MCR when it has returned, by the count exit and by the timeout exit alike.
C1_RtsToggled ==
    (op = "uart_recv" /\ "RTS" \in mcrIn) =>
        /\ pc \in RecvLoop \cup {"recv_122"} => "RTS" \notin MCR
        /\ pc = "idle" => "RTS" \in MCR /\ exitBy \in {"count", "timeout"}

C1_Witness ==
    /\ RecvReturned
    /\ "RTS" \in mcrIn
    /\ exitBy = "timeout"
    /\ Len(presented) = 1

\* C2: a uart_recv call with len > 0 during which the receive FIFO never holds
\* a byte, and during which the counter keeps increasing (neither the counter
\* nor the deadline now+250 passes 2^32), writes nothing into the buffer,
\* returns 0, returns only when at least 250 us have passed since the
\* deadline was computed at entry, and does return.
C2_QuietSafe ==
    (op = "uart_recv" /\ len > 0 /\ ~hadData) =>
        /\ BufUntouched
        /\ (pc = "idle" /\ ~wrapped) =>
              ret = 0 /\ exitBy = "timeout" /\ since >= Timeout

C3_Continuous ==
    (RecvReturned /\ len > 0 /\ ~sawClear) =>
        /\ ret = len
        /\ Len(presented) = len
        /\ Len(injected) >= len
        /\ presented = SubSeq(injected, 1, len)
        /\ \A k \in 0 .. BufTop :
              buf[k] = IF k < len THEN injected[k + 1] ELSE NoByte

C3_Witness ==
    /\ RecvReturned
    /\ len = 2
    /\ ~sawClear
    /\ ret = 2
    /\ buf[0] # buf[1]

\* C4: whatever the hardware does, a uart_recv call with len > 0 never writes
\* a buffer index >= len, and returns a count between 0 and len that is the
\* number of reads of the receive register it made.
C4_CountBounds ==
    (op = "uart_recv" /\ len > 0) =>
        /\ \A k \in 0 .. BufTop : k >= len => buf[k] = NoByte
        /\ Len(presented) <= len
        /\ pc = "idle" => ret >= 0 /\ ret <= len /\ ret = Len(presented)

C4_Witness ==
    /\ RecvReturned
    /\ len = 2
    /\ ret = 1
    /\ sawClear
    /\ exitBy = "timeout"

\* C5 as stated: the window is per byte, and the timeout exit is taken only
\* once 250 us have passed since the deadline was last computed (at entry or
\* after the last byte read).
C5_Original ==
    (op = "uart_recv" /\ exitBy = "timeout") => since >= Timeout

\* What the code keeps of C5: the deadline in force is always the counter
\* value read at entry or after the last byte read, plus 250 modulo 2^32; the
\* timeout exit is taken only after a poll that found data-ready clear, and,
\* when neither the deadline nor the counter passed 2^32 in the window, only
\* when more than 250 us have passed since the deadline was computed.
C5_RollingWindow ==
    (op = "uart_recv" /\ pc \notin {"recv_101", "recv_102"}) =>
        /\ U32Add(timeout, since) = U32Add(tmr, Timeout)
        /\ exitBy = "timeout" =>
              /\ sawClear
              /\ ~wrapped => since > Timeout

\* a call that outlasts 2 * 250 us without a timeout between its bytes
C5_Witness ==
    /\ RecvReturned
    /\ exitBy = "timeout"
    /\ ~wrapped
    /\ Len(presented) = 2
    /\ tmr.hi = 0
    /\ tmr.lo > 2 * Timeout

\* C6 as stated: with len = 0 the call returns only by the timeout exit, and
\* only once 250 us have passed without a byte.
C6_Original ==
    (RecvReturned /\ len = 0) => exitBy = "timeout" /\ since >= Timeout

\* What the code keeps of C6: with len = 0 the call never takes the count
\* exit; it writes buf[0], buf[1], ... in turn, one index per byte read,
\* beyond any len; it returns only by the timeout exit, after a poll that
\* found data-ready clear, with the number of bytes read, and, when neither
\* the deadline nor the counter passed 2^32 in the window, only when more
\* than 250 us have passed since the deadline was computed.
C6_Unbounded ==
    (op = "uart_recv" /\ len = 0) =>
        /\ exitBy # "count"
        /\ \A k \in 0 .. BufTop : (buf[k] # NoByte) <=> (k < Len(presented))
        /\ pc = "idle" =>
              /\ exitBy = "timeout"
              /\ sawClear
              /\ ret = Len(presented)
              /\ ~wrapped => since > Timeout

C6_Witness ==
    /\ RecvReturned
    /\ len = 0
    /\ ret > MaxLen
    /\ exitBy = "timeout"
    /\ ~wrapped

\* C19 as stated: whatever the counter reads at entry, the timeout exit is
\* never taken before 250 us have passed since the deadline was computed (at
\* entry or after the last byte read), and once more than 250 us have passed
\* with no data, the next deadline test takes the timeout exit.
C19_Original ==
    op = "uart_recv" =>
        /\ exitBy = "timeout" => since >= Timeout
        /\ (pc = "recv_114" /\ since > Timeout) => TimedOut(timeout, tmr)

\* C20: uart_recv leaves MCR as it found it: with RTS clear at entry it never
\* writes MCR; with RTS set at entry only the RTS bit differs during the
\* call, and at return MCR is equal to its value at entry.
C20_McrFrame ==
    op = "uart_recv" =>
        /\ MCR \ {"RTS"} = mcrIn \ {"RTS"}
        /\ "RTS" \notin mcrIn => mcrWrites = 0 /\ MCR = mcrIn
        /\ pc = "idle" => MCR = mcrIn

\* a call entered with RTS and another bit set, that wrote MCR twice
C20_Witness ==
    /\ RecvReturned
    /\ mcrIn = {"RTS", "DTR"}
    /\ MCR = mcrIn
    /\ mcrWrites = 2
    /\ exitBy = "count"

(***************************************************************************)
(* uart_invert                                                             *)
(***************************************************************************)
\* the mask is not complemented when clearing: IRDA_CSR &= invert_mask
InvertBits_NoNot(csr, enable, mask) ==
    IF enable THEN csr \cup mask ELSE csr \cap mask

\* the bits are toggled: IRDA_CSR ^= invert_mask
InvertBits_Toggle(csr, enable, mask) ==
    IF enable THEN (csr \ mask) \cup (mask \ csr) ELSE csr \ mask

\* lines 132-135: IRDA_CSR |= invert_mask, or IRDA_CSR &= ~invert_mask
InvertBits(csr, enable, mask) ==
    IF enable THEN csr \cup mask ELSE csr \ mask

LastTwo(s) == IF Len(s) > 2 THEN Tail(s) ELSE s

\* lines 128-137: uart_invert(idx, enable, invert_mask); the read of the
\* scratch register that ends it changes nothing
uart_invert(enable, mask) ==
    /\ pc = "idle"
    /\ IRDA_CSR' = InvertBits(IRDA_CSR, enable, mask)
    /\ op' = "uart_invert"
    /\ invLog' = LastTwo(Append(invLog,
                    [enable |-> enable, mask |-> mask,
                     before |-> IRDA_CSR, after |-> IRDA_CSR']))
    /\ UNCHANGED <<MCR, rx, tmr, pc, ret, recvVars, histVars, invRest>>

InitInvert ==
    /\ MCR = {}
    /\ IRDA_CSR \in SUBSET CsrBits
    /\ rx = <<>>
    /\ tmr = U32Zero
    /\ InitRegs
    /\ InitLocals

NextInvert == \E enable \in BOOLEAN, mask \in SUBSET CsrBits : uart_invert(enable, mask)

SpecInvert == InitInvert /\ [][NextInvert]_vars

\* the last two calls were uart_invert(true, M) and then uart_invert(false, M)
SetThenClear ==
    /\ Len(invLog) = 2
    /\ invLog[1].enable
    /\ ~invLog[2].enable
    /\ invLog[1].mask = invLog[2].mask

\* C7 as stated: uart_invert(true, M) followed by uart_invert(false, M) leaves
\* IRDA_CSR equal to its value before the first of the two calls.
C7_Original == SetThenClear => IRDA_CSR = invLog[1].before

\* C7 as amended: uart_invert(true, M) followed by uart_invert(false, M) leaves
\* IRDA_CSR equal to its value before the first call with the bits of M
\* cleared; the value is restored exactly when no bit of M was set before.
C7_SetThenClear ==
    SetThenClear =>
        /\ IRDA_CSR = invLog[1].before \ invLog[1].mask
        /\ (IRDA_CSR = invLog[1].before) <=>
              (invLog[1].before \cap invLog[1].mask = {})

C7_Witness ==
    /\ SetThenClear
    /\ invLog[1].mask = {"INVERT_RXD", "INVERT_TXD"}
    /\ invLog[1].before = {"INVERT_RTS"}
    /\ IRDA_CSR = {"INVERT_RTS"}

\* C8: uart_invert(enable, mask) called twice in a row leaves IRDA_CSR as the
\* first call left it, and no call changes a bit outside its mask.
C8_Idempotent ==
    /\ \A k \in 1 .. Len(invLog) :
          invLog[k].after \ invLog[k].mask = invLog[k].before \ invLog[k].mask
    /\ (/\ Len(invLog) = 2
        /\ invLog[1].enable = invLog[2].enable
        /\ invLog[1].mask = invLog[2].mask) => invLog[2].after = invLog[1].after

C8_Witness ==
    /\ Len(invLog) = 2
    /\ invLog[1].enable
    /\ invLog[2].enable
    /\ invLog[1].mask = {"INVERT_CTS"}
    /\ invLog[2].mask = {"INVERT_CTS"}
    /\ invLog[1].before = {"INVERT_RXD"}
    /\ IRDA_CSR = {"INVERT_RXD", "INVERT_CTS"}

(***************************************************************************)
(* uart_empty_fifo                                                         *)
(***************************************************************************)
\* lines 184 and 194: tries < 10
KeepTrying(t) == t < MaxTries

\* the count of the transmitter loop is carried into the receiver loop
TriesAfterTx_Kept(t) == t

\* line 189: tries = 0
TriesAfterTx(t) == 0

\* lines 182 and 192: UART_IIR_FCR_TX_CLR & which, UART_IIR_FCR_RX_CLR & which
WantsTx(w) == "TX_CLR" \in w
WantsRx(w) == "RX_CLR" \in w

\* uart_empty_fifo(idx, w) is entered with the counter at t
uart_empty_fifo_enter(w, t) ==
    /\ pc = "idle"
    /\ which' = w
    /\ tmr' = t
    /\ pc' = "fifo_173"
    /\ op' = "uart_empty_fifo"
    /\ tries' = 0
    /\ pollsTx' = 0
    /\ pollsRx' = 0
    /\ naps' = 0
    /\ gaveUp' = {}
    /\ injected' = <<>>
    /\ mcrIn' = MCR
    /\ mcrBy' = "uart_empty_fifo"
    /\ UNCHANGED <<MCR, IRDA_CSR, rx, ret, recvVars, since, wrapped, exitBy,
                   presented, sawClear, mcrWrites, FCR, tx, txShift, invVars, LCR,
                   IER, DLL, DLM, loopback, rxCap, stuck, progRest, iirVars>>

\* the call: uart_empty_fifo(idx, which), entered at any counter value
uart_empty_fifo_call ==
    \E w \in SUBSET {"RX_CLR", "TX_CLR"}, t \in TmrEntries : uart_empty_fifo_enter(w, t)

\* MCR is left as it was
McrOff_Kept == MCR

\* line 173: the value written, uart->UART_MCR = 0
McrOff == {}

\* lines 173-175: MCR = 0; usleep(96)
uart_empty_fifo_173 ==
    /\ pc = "fifo_173"
    /\ MCR' = McrOff
    /\ tmr' = U32Add(tmr, 96)
    /\ pc' = "fifo_177"
    /\ UNCHANGED <<IRDA_CSR, rx, op, ret, recvVars, histVars, FCR, tx, txShift,
                   fifoVars, fifoRest>>

\* lines 177-182, 192: FCR = EN_FIFO | which; usleep(18); tries = 0
uart_empty_fifo_177 ==
    /\ pc = "fifo_177"
    /\ FCR' = {"EN_FIFO"} \cup which
    /\ rx' = FcrRx(FCR', rx)
    /\ tx' = FcrTx(FCR', tx)
    /\ tmr' = U32Add(tmr, 18)
    /\ tries' = 0
    /\ pc' = IF WantsTx(which) THEN "fifo_184"
             ELSE IF WantsRx(which) THEN "fifo_194" ELSE "idle"
    /\ UNCHANGED <<MCR, IRDA_CSR, op, ret, recvVars, histVars, txShift, which,
                   pollsTx, pollsRx, naps, gaveUp, fifoRest>>

\* lines 184-190: while (tries < 10 && !(LSR & TMTY)) { tries++; usleep(100); }
\* tries = 0
uart_empty_fifo_184 ==
    /\ pc = "fifo_184"
    /\ IF KeepTrying(tries)
       THEN /\ pollsTx' = pollsTx + 1
            /\ IF ~LSR_TMTY
               THEN /\ tries' = tries + 1
                    /\ naps' = naps + 1
                    /\ tmr' = U32Add(tmr, PollSleep)
                    /\ pc' = pc
                    /\ gaveUp' = gaveUp
               ELSE /\ tries' = TriesAfterTx(tries)
                    /\ pc' = IF WantsRx(which) THEN "fifo_194" ELSE "idle"
                    /\ UNCHANGED <<naps, tmr, gaveUp>>
       ELSE /\ tries' = TriesAfterTx(tries)
            /\ gaveUp' = gaveUp \cup {"TX"}
            /\ pc' = IF WantsRx(which) THEN "fifo_194" ELSE "idle"
            /\ UNCHANGED <<pollsTx, naps, tmr>>
    /\ UNCHANGED <<MCR, IRDA_CSR, rx, op, ret, recvVars, histVars, FCR, tx,
                   txShift, which, pollsRx, fifoRest>>

\* lines 194-198: while (tries < 10 && (LSR & RDR)) { tries++; usleep(100); }
uart_empty_fifo_194 ==
    /\ pc = "fifo_194"
    /\ IF KeepTrying(tries)
       THEN /\ pollsRx' = pollsRx + 1
            /\ IF LSR_RDR
               THEN /\ tries' = tries + 1
                    /\ naps' = naps + 1
                    /\ tmr' = U32Add(tmr, PollSleep)
                    /\ pc' = pc
                    /\ gaveUp' = gaveUp
               ELSE /\ pc' = "idle"
                    /\ UNCHANGED <<tries, naps, tmr, gaveUp>>
       ELSE /\ gaveUp' = gaveUp \cup {"RX"}
            /\ pc' = "idle"
            /\ UNCHANGED <<tries, pollsRx, naps, tmr>>
    /\ UNCHANGED <<MCR, IRDA_CSR, rx, op, ret, recvVars, histVars, FCR, tx,
                   txShift, which, pollsTx, fifoRest>>

uart_empty_fifo ==
    \/ uart_empty_fifo_173
    \/ uart_empty_fifo_177
    \/ uart_empty_fifo_184
    \/ uart_empty_fifo_194

\* Calls of uart_empty_fifo on a port in any state: bytes may wait in either
\* FIFO and in the shift register, the transmitter may or may not progress,
\* and the line may deliver bytes at any time.
InitFifo ==
    /\ MCR \in {{}, {"RTS", "CTS_EN"}}
    /\ IRDA_CSR = {}
    /\ rx \in {<<>>, <<65>>}
    /\ tmr = U32Zero
    /\ LCR = {"WORD_LENGTH_8"}
    /\ IER = 0
    /\ DLL = 0
    /\ DLM = 0
    /\ FCR = {"EN_FIFO"}
    /\ tx \in {<<>>, <<65>>}
    /\ txShift \in {<<>>, <<84>>}
    /\ loopback = FALSE
    /\ rxCap = FifoDepth
    /\ stuck = FALSE
    /\ InitLocals

NextFifo ==
    \/ uart_empty_fifo_call
    \/ uart_empty_fifo
    \/ HwTxLoad
    \/ HwTxOut
    \/ \E b \in ByteSet : HwRx(b)

SpecFifo == InitFifo /\ [][NextFifo]_vars

\* The driver runs: a call in progress takes its next step.  Nothing is
\* assumed of the transmitter or of the line.
FairSpecFifo == SpecFifo /\ WF_vars(uart_empty_fifo)

\* C9: uart_empty_fifo reads LSR at most 10 times in each of its two loops,
\* never in the loop of a direction that was not requested, sleeps 100 us
\* only after a read that did not show the direction drained, gives a
\* direction up only after 10 reads of its own whatever the other direction
\* used, and returns in every case.
C9_PollBudget ==
    (op = "uart_empty_fifo") =>
        /\ pollsTx <= MaxTries
        /\ pollsRx <= MaxTries
        /\ ~WantsTx(which) => pollsTx = 0 /\ "TX" \notin gaveUp
        /\ ~WantsRx(which) => pollsRx = 0 /\ "RX" \notin gaveUp
        /\ "TX" \in gaveUp => pollsTx = MaxTries
        /\ "RX" \in gaveUp => pollsRx = MaxTries
        /\ naps <= pollsTx + pollsRx
        /\ naps = tries + (IF pc = "fifo_194" \/ pc = "idle"
                           THEN (IF "TX" \in gaveUp THEN MaxTries
                                 ELSE IF WantsTx(which) THEN pollsTx - 1 ELSE 0)
                           ELSE 0)

C9_DrainEnds ==
    /\ []C9_PollBudget
    /\ (pc = "fifo_173") ~> (pc = "idle")

C9_Witness ==
    /\ op = "uart_empty_fifo"
    /\ pc = "idle"
    /\ gaveUp = {"TX", "RX"}
    /\ pollsTx = MaxTries
    /\ pollsRx = MaxTries
    /\ naps = 2 * MaxTries

(***************************************************************************)
(* uart_wait_xfer, uart_send and uart_init.                                *)
(***************************************************************************)
\* what uart_wait_xfer, uart_send and uart_init leave alone
recvRest == <<ret, recvVars, histVars, invVars, fifoVars, iirVars, mcrBy>>

\* line 74: if (UART_TX_IDLE & which)
WaitsTx(w) == "TX_IDLE" \in w

\* line 79: if (UART_RX_RDYR & which)
WaitsRx(w) == "RX_RDYR" \in w

\* uart_wait_xfer(idx, w) is called; it returns to r
WaitEntry(w, r) ==
    IF WaitsTx(w) THEN "wait_76" ELSE IF WaitsRx(w) THEN "wait_81" ELSE r

\* a read of LSR by uart_wait_xfer or uart_send
LsrRead ==
    /\ lastLsr' = LSR
    /\ seenLsr' = seenLsr \cup LSR
    /\ touched' = TRUE

\* the call is entered: nothing read yet
NoneRead ==
    /\ lastLsr' = NoRead
    /\ seenLsr' = {}
    /\ touched' = FALSE
    /\ steps' = <<>>

\* the call has made the hardware step e
Logged(e) == steps' = Append(steps, e)

\* what a step of uart_init that reads no LSR leaves alone
initRest == <<initVars, waitVars, sendVars, pollVars>>

\* line 76: uart->UART_LSR & UART_LSR_TMTY
TmtySeen_Any(lsr) == TRUE
TmtySeen(lsr) == "TMTY" \in lsr

\* line 81: uart->UART_LSR & UART_LSR_RDR
RdrSeen(lsr) == "RDR" \in lsr

\* line 92: uart->UART_LSR & UART_LSR_THRE
ThreSeen_Any(lsr) == TRUE
ThreSeen(lsr) == "THRE" \in lsr

\* line 76: while (!(uart->UART_LSR & UART_LSR_TMTY)) ;
uart_wait_xfer_76 ==
    /\ pc = "wait_76"
    /\ LsrRead
    /\ pc' = IF TmtySeen(LSR) THEN (IF WaitsRx(wwhich) THEN "wait_81" ELSE wret) ELSE pc
    /\ steps' = IF TmtySeen(LSR) THEN Append(steps, "TX_IDLE") ELSE steps
    /\ UNCHANGED <<hwVars, op, recvRest, cfgRegs, txVars, initVars, waitVars,
                   sendVars>>

\* lines 81-82: while (uart->UART_LSR & UART_LSR_RDR) (void)uart->UART_THR_DLAB;
uart_wait_xfer_81 ==
    /\ pc = "wait_81"
    /\ LsrRead
    /\ IF RdrSeen(LSR)
       THEN /\ rx' = RbrRest
            /\ pc' = pc
            /\ steps' = steps
       ELSE /\ rx' = rx
            /\ pc' = wret
            /\ Logged("RX_RDYR")
    /\ UNCHANGED <<MCR, IRDA_CSR, tmr, op, recvRest, cfgRegs, txVars, initVars,
                   waitVars, sendVars>>

uart_wait_xfer ==
    \/ uart_wait_xfer_76
    \/ uart_wait_xfer_81

\* line 90: for (u32 i = 0; i != len; i++)
SendDone(k, l) == k = l

\* line 94: buf[i]
SendByte_First(b, k) == b[1]
SendByte(b, k) == b[k + 1]

\* uart_send(idx, b, Len(b)) is called
uart_send_enter(b) ==
    /\ pc = "idle"
    /\ op' = "uart_send"
    /\ sbuf' = b
    /\ slen' = Len(b)
    /\ si' = 0
    /\ sent' = <<>>
    /\ NoneRead
    /\ pc' = IF SendDone(0, Len(b)) THEN "idle" ELSE "send_92"
    /\ UNCHANGED <<hwVars, recvRest, cfgRegs, txVars, initVars, waitVars>>

\* line 92: while (!(uart->UART_LSR & UART_LSR_THRE)) ;
uart_send_92 ==
    /\ pc = "send_92"
    /\ LsrRead
    /\ pc' = IF ThreSeen(LSR) THEN "send_94" ELSE pc
    /\ UNCHANGED <<hwVars, op, recvRest, cfgRegs, txVars, initVars, waitVars,
                   sendVars, steps>>

\* lines 94, 90: uart->UART_THR_DLAB = buf[i]; i++; i != len
uart_send_94 ==
    /\ pc = "send_94"
    /\ ThrWrite(SendByte(sbuf, si))
    /\ sent' = IF "DLAB" \in LCR THEN sent ELSE Append(sent, SendByte(sbuf, si))
    /\ si' = si + 1
    /\ lastLsr' = NoRead
    /\ touched' = TRUE
    /\ pc' = IF SendDone(si', slen) THEN "idle" ELSE "send_92"
    /\ UNCHANGED <<hwVars, op, recvRest, LCR, IER, DLM, FCR, txShift, loopback,
                   rxCap, stuck, sbuf, slen, seenLsr, steps, initVars, waitVars>>

uart_send ==
    \/ uart_send_92
    \/ uart_send_94

\* line 38: u32 uart_lcr_stop = baud > 1000000 ? UART_LCR_STOP : 0
LcrStop_AtMillion(b) == IF U32Lt(b, U32Of(1000000)) THEN {} ELSE {"STOP"}
LcrStop(b) == IF U32Lt(U32Of(1000000), b) THEN {"STOP"} ELSE {}

\* line 48: uart_lcr_stop | UART_LCR_WORD_LENGTH_8
LcrFinal_Latched(stop) == stop \cup {"WORD_LENGTH_8", "DLAB"}
LcrFinal(stop) == stop \cup {"WORD_LENGTH_8"}

\* line 41: div = clk_type ? ((8 * baud + 408000000) / (16 * baud)) : 1, in
\* u32 arithmetic; DivDen(b) is the divisor 16 * baud, which is 0 for a baud
\* that is a multiple of 2^28
DivNum(b) == U32Plus(U32Times(b, 8), U32Of(408000000))
DivDen(b) == U32Times(b, 16)
Div_NoRound(clk, b) == IF clk THEN U32Div(U32Of(408000000), DivDen(b)) ELSE U32Of(1)
Div(clk, b) == IF clk THEN U32Div(DivNum(b), DivDen(b)) ELSE U32Of(1)

\* what a u32 division by zero may leave in div
DivByZero == {U32Zero, U32FromTop(1)}

\* line 67: 3 * ((baud + 999999) / baud), in u32 arithmetic, baud # 0
SymbolWait(b) == U32Times(U32Div(U32Plus(b, U32Of(999999)), b), 3)

\* uart_init(idx, b, m) is called with the counter at t
uart_init_enter(b, m, t) ==
    /\ pc = "idle"
    /\ tmr' = t
    /\ op' = "uart_init"
    /\ baud' = b
    /\ mode' = m
    /\ clk_type' = FALSE
    /\ lcr_stop' = {}
    /\ div' = U32Zero
    /\ NoneRead
    /\ mcrBy' = "uart_init"
    /\ pc' = "init_31"
    /\ UNCHANGED <<MCR, IRDA_CSR, rx, ret, recvVars, histVars, invVars, fifoVars,
                   iirVars, cfgRegs, txVars, waitVars, sendVars>>

\* lines 31-32: if (!(mode & (UART_MCR_CTS_EN | UART_MCR_DTR)))
\*                  uart_wait_xfer(idx, UART_TX_IDLE)
uart_init_31 ==
    /\ pc = "init_31"
    /\ IF mode \cap {"CTS_EN", "DTR"} = {}
       THEN /\ wwhich' = {"TX_IDLE"}
            /\ wret' = "init_35"
            /\ pc' = WaitEntry(wwhich', wret')
       ELSE /\ pc' = "init_35"
            /\ UNCHANGED waitVars
    /\ UNCHANGED <<hwVars, op, recvRest, cfgRegs, txVars, initVars, sendVars, pollVars, steps>>

\* lines 35-41: clk_type = clock_uart_use_src_div(idx, baud), which answers
\* either way; uart_lcr_stop and div are computed.  A division by zero
\* leaves any value in div, or traps and the call never goes on.
uart_init_35 ==
    /\ pc = "init_35"
    /\ clk_type' \in BOOLEAN
    /\ lcr_stop' = LcrStop(baud)
    /\ IF clk_type' /\ DivDen(baud) = U32Zero
       THEN \/ div' \in DivByZero /\ pc' = "init_42"
            \/ div' = div /\ pc' = "trap"
       ELSE div' = Div(clk_type', baud) /\ pc' = "init_42"
    /\ steps' = steps \o <<"clock">>
    /\ UNCHANGED <<hwVars, op, recvRest, cfgRegs, txVars, baud, mode, waitVars,
                   sendVars, pollVars>>

\* line 42: uart->UART_IER_DLAB = 0
uart_init_42 ==
    /\ pc = "init_42"
    /\ IerWrite(0)
    /\ steps' = steps \o <<IerName>>
    /\ pc' = "init_43"
    /\ UNCHANGED <<hwVars, op, recvRest, LCR, DLL, FCR, txVars, initRest>>

\* line 43: uart->UART_LCR = UART_LCR_DLAB | UART_LCR_WORD_LENGTH_8
uart_init_43 ==
    /\ pc = "init_43"
    /\ LCR' = {"DLAB", "WORD_LENGTH_8"}
    /\ steps' = steps \o <<"LCR_DLAB">>
    /\ pc' = "init_44"
    /\ UNCHANGED <<hwVars, op, recvRest, IER, DLL, DLM, FCR, txVars, initRest>>

\* line 44: uart->UART_THR_DLAB = (u8)div
uart_init_44 ==
    /\ pc = "init_44"
    /\ ThrWrite(div.lo % 256)
    /\ steps' = steps \o <<ThrName>>
    /\ pc' = "init_45"
    /\ UNCHANGED <<hwVars, op, recvRest, LCR, IER, DLM, FCR, txShift, loopback,
                   rxCap, stuck, initRest>>

\* line 45: uart->UART_IER_DLAB = (u8)(div >> 8)
uart_init_45 ==
    /\ pc = "init_45"
    /\ IerWrite(div.lo \div 256)
    /\ steps' = steps \o <<IerName>>
    /\ pc' = "init_48"
    /\ UNCHANGED <<hwVars, op, recvRest, LCR, DLL, FCR, txVars, initRest>>

\* lines 48-49: uart->UART_LCR = uart_lcr_stop | UART_LCR_WORD_LENGTH_8
uart_init_48 ==
    /\ pc = "init_48"
    /\ LCR' = LcrFinal(lcr_stop)
    /\ steps' = steps \o <<"LCR">>
    /\ pc' = "init_52"
    /\ UNCHANGED <<hwVars, op, recvRest, IER, DLL, DLM, FCR, txVars, initRest>>

\* lines 52-54: uart->UART_IIR_FCR = UART_IIR_FCR_EN_FIFO; usleep(20)
uart_init_52 ==
    /\ pc = "init_52"
    /\ FCR' = {"EN_FIFO"}
    /\ rx' = FcrRx(FCR', rx)
    /\ tx' = FcrTx(FCR', tx)
    /\ tmr' = U32Add(tmr, 20)
    /\ steps' = steps \o <<"FCR", "usleep">>
    /\ pc' = "init_57"
    /\ UNCHANGED <<MCR, IRDA_CSR, op, recvRest, LCR, IER, DLL, DLM, txShift,
                   loopback, rxCap, stuck, initRest>>

\* lines 57-58: uart->UART_MCR = 0; usleep(96)
uart_init_57 ==
    /\ pc = "init_57"
    /\ MCR' = {}
    /\ tmr' = U32Add(tmr, 96)
    /\ steps' = steps \o <<"MCR_0", "usleep">>
    /\ pc' = "init_61"
    /\ UNCHANGED <<IRDA_CSR, rx, op, recvRest, cfgRegs, txVars, initRest>>

\* line 61: uart->UART_IIR_FCR = EN_FIFO | TX_CLR | RX_CLR
uart_init_61 ==
    /\ pc = "init_61"
    /\ FCR' = {"EN_FIFO", "TX_CLR", "RX_CLR"}
    /\ rx' = FcrRx(FCR', rx)
    /\ tx' = FcrTx(FCR', tx)
    /\ steps' = steps \o <<"FCR_CLR">>
    /\ pc' = "init_64"
    /\ UNCHANGED <<MCR, IRDA_CSR, tmr, op, recvRest, LCR, IER, DLL, DLM, txShift,
                   loopback, rxCap, stuck, initRest>>

\* line 64: uart->UART_MCR = mode
uart_init_64 ==
    /\ pc = "init_64"
    /\ MCR' = mode
    /\ steps' = steps \o <<"MCR_mode">>
    /\ pc' = "init_67"
    /\ UNCHANGED <<IRDA_CSR, rx, tmr, op, recvRest, cfgRegs, txVars, initRest>>

\* lines 67-68: usleep(3 * ((baud + 999999) / baud));
\*              uart_wait_xfer(idx, UART_TX_IDLE | UART_RX_RDYR)
uart_init_67 ==
    /\ pc = "init_67"
    /\ tmr' = U32Plus(tmr, SymbolWait(baud))
    /\ wwhich' = {"TX_IDLE", "RX_RDYR"}
    /\ wret' = "idle"
    /\ steps' = steps \o <<"usleep">>
    /\ pc' = WaitEntry(wwhich', wret')
    /\ UNCHANGED <<MCR, IRDA_CSR, rx, op, recvRest, cfgRegs, txVars, initVars,
                   sendVars, pollVars>>

uart_init ==
    \/ uart_init_31
    \/ uart_init_35
    \/ uart_init_42
    \/ uart_init_43
    \/ uart_init_44
    \/ uart_init_45
    \/ uart_init_48
    \/ uart_init_52
    \/ uart_init_57
    \/ uart_init_61
    \/ uart_init_64
    \/ uart_init_67

(***************************************************************************)
(* uart_init(115200, 0); uart_send("AT\r\n", 4); uart_recv(buf, 4) on a    *)
(* port whose transmit line is wired to its receive line.                  *)
(***************************************************************************)
\* deep enough that the message never overruns the receive FIFO
LoopDepth == Len(Msg) + FifoDepth

\* The port as an earlier user left it: bytes may sit in either FIFO and in
\* the shift register.  The counter is far from 2^32, or so close that the
\* deadline of the uart_recv call passes it.
InitLoop ==
    /\ MCR \in {{}, {"RTS"}}
    /\ IRDA_CSR = {}
    /\ rx \in {<<>>, <<84>>}
    /\ tmr \in {U32Zero, U32FromTop(Timeout + 20 + 96 + SymbolWait(U32Of(115200)).lo)}
    /\ LCR = {"WORD_LENGTH_8"}
    /\ IER \in {0, 1}
    /\ DLL = 0
    /\ DLM = 0
    /\ FCR = {"EN_FIFO"}
    /\ tx \in {<<>>, <<10>>}
    /\ txShift \in {<<>>, <<13>>}
    /\ loopback = TRUE
    /\ rxCap = LoopDepth
    /\ stuck = FALSE
    /\ InitLocals

LoopInit == op = "none" /\ uart_init_enter(U32Of(115200), {}, tmr)
LoopSend == op = "uart_init" /\ uart_send_enter(Msg)
LoopRecv == op = "uart_send" /\ uart_recv_enter(Len(Msg), tmr)

LoopDriver ==
    \/ LoopInit
    \/ LoopSend
    \/ LoopRecv
    \/ uart_init
    \/ uart_wait_xfer
    \/ uart_send
    \/ uart_recv

NextLoop ==
    \/ LoopDriver
    \/ HwTxLoad
    \/ HwTxOut
    \/ \E d \in TickSet : Tick(d)

SpecLoop == InitLoop /\ [][NextLoop]_vars

\* The driver runs, the transmitter keeps sending what it holds, and the
\* counter keeps counting.
FairSpecLoop ==
    /\ SpecLoop
    /\ WF_vars(LoopDriver)
    /\ WF_vars(HwTxLoad)
    /\ WF_vars(HwTxOut)
    /\ WF_vars(\E d \in TickSet : Tick(d))

IsPrefix(p, s) == Len(p) <= Len(s) /\ \A k \in 1 .. Len(p) : p[k] = s[k]

LoopReturned == op = "uart_recv" /\ pc = "idle"

\* C10 as stated: the sequence ends with uart_recv returning 4 and buf holding
\* the four sent bytes.
C10_Original ==
    LoopReturned => ret = Len(Msg) /\ \A k \in 1 .. Len(Msg) : buf[k - 1] = Msg[k]

\* C10: on the looped port the sequence uart_init(115200, 0); uart_send("AT\r\n",
\* 4); uart_recv(buf, 4) terminates.  uart_init returns with both FIFOs and
\* the shift register empty, so nothing from before the send is left; uart_send
\* puts the four bytes into the transmit FIFO in order; uart_recv returns
\* n <= 4 with buf[0 .. n-1] the first n sent bytes in order and the rest of
\* buf untouched.  n is 4 unless a poll found the receive FIFO empty and the
\* counter read after it was greater than the deadline now+250 (modulo 2^32).
C10_LoopSafe ==
    /\ (op = "uart_init" /\ pc = "idle") =>
           rx = <<>> /\ tx = <<>> /\ txShift = <<>>
    /\ (op = "uart_send") =>
           /\ IsPrefix(sent, Msg)
           /\ pc = "idle" => sent = Msg
    /\ (op = "uart_recv") =>
           /\ IsPrefix(presented, Msg)
           /\ \A k \in 0 .. BufTop :
                  buf[k] = IF k < Len(presented) THEN Msg[k + 1] ELSE NoByte
    /\ LoopReturned =>
           /\ ret = Len(presented)
           /\ \/ ret = Len(Msg)
              \/ exitBy = "timeout" /\ sawClear /\ (wrapped \/ since > Timeout)

C10_Loopback ==
    /\ []C10_LoopSafe
    /\ <>LoopReturned

\* the bytes were slow: uart_recv gave up after two of the four
C10_Witness ==
    /\ LoopReturned
    /\ ret = 2
    /\ buf[0] = Msg[1]
    /\ buf[1] = Msg[2]
    /\ exitBy = "timeout"
    /\ ~wrapped

(***************************************************************************)
(* uart_init called again and again, with any baud and mode, on a port     *)
(* that sends what it holds and receives what the line delivers.           *)
(***************************************************************************)
\* baud rates: the lowest, around the largest 16 bit divisor, a usual one,
\* around 1000000, the tie 408000000 / (16 * baud) = 1/2, around 2^28 where
\* 16 * baud passes 2^32, and the highest
BaudSet ==
    { U32Of(1), U32Of(389), U32Of(390), U32Of(115200), U32Of(1000000),
      U32Of(1000001), U32Of(51000000), [hi |-> 2 ^ 12, lo |-> 0],
      [hi |-> 2 ^ 12, lo |-> 1], U32FromTop(1) }

ModeSet == {{}, {"RTS"}, {"CTS_EN", "RTS_EN"}}

InitPort ==
    /\ MCR \in {{}, {"RTS"}}
    /\ IRDA_CSR = {}
    /\ rx \in {<<>>, <<84>>}
    /\ tmr = U32Zero
    /\ LCR = {"WORD_LENGTH_8"}
    /\ IER \in {0, 1}
    /\ DLL = 0
    /\ DLM = 0
    /\ FCR = {"EN_FIFO"}
    /\ tx \in {<<>>, <<10>>}
    /\ txShift = <<>>
    /\ loopback = FALSE
    /\ rxCap = FifoDepth
    /\ stuck = FALSE
    /\ InitLocals

\* the call: uart_init(idx, baud, mode)
uart_init_call == \E b \in BaudSet, m \in ModeSet : uart_init_enter(b, m, U32Zero)

NextInit ==
    \/ uart_init_call
    \/ uart_init
    \/ uart_wait_xfer
    \/ HwTxLoad
    \/ HwTxOut
    \/ HwRx(84)

SpecInit == InitPort /\ [][NextInit]_vars

InitReturned == op = "uart_init" /\ pc = "idle"

\* the divisor in the latch
Latched == DLM * 256 + DLL

\* 408000000 / (16 * baud) rounded to the nearest integer, halves up; 0 from
\* 2^27 on, where 16 * baud is more than twice 408000000
RoundHalfUp(b) ==
    IF b.hi >= 2 ^ 11
    THEN 0
    ELSE LET d == 16 * (b.hi * Half + b.lo) IN
         408000000 \div d + (IF 2 * (408000000 % d) >= d THEN 1 ELSE 0)

\* C11 as stated: for every baud the latched divisor is the rounded quotient
\* with a divided source, and 1 with an undivided source.
C11_Original ==
    InitReturned =>
        IF clk_type THEN Latched = RoundHalfUp(baud) ELSE DLL = 1 /\ DLM = 0

\* C11: when uart_init has returned, with an undivided source the latch
\* holds 1 (LSB 1, MSB 0); with a divided source and 16 * baud not 0 modulo
\* 2^32 it holds the low 16 bits of (8*baud + 408000000) / (16*baud) computed
\* in u32 arithmetic, which for baud < 2^28 is round-half-up(408000000 /
\* (16 * baud)) modulo 2^16, the rounded quotient itself when that fits in
\* 16 bits.
C11_Divisor ==
    InitReturned =>
        /\ ~clk_type => DLL = 1 /\ DLM = 0
        /\ (clk_type /\ DivDen(baud) # U32Zero) =>
               /\ Latched = Div(TRUE, baud).lo
               /\ baud.hi < 2 ^ 12 => Latched = RoundHalfUp(baud) % Half
               /\ (baud.hi < 2 ^ 12 /\ RoundHalfUp(baud) < Half) =>
                      Latched = RoundHalfUp(baud)

\* the tie: 408000000 / (16 * 51000000) = 1/2 is latched as 1
C11_Witness ==
    /\ InitReturned
    /\ clk_type
    /\ baud = U32Of(51000000)
    /\ DLL = 1
    /\ DLM = 0

\* C12: when uart_init has returned, LCR holds the 8 bit word length, and
\* also the 2 stop bit flag exactly when baud > 1000000, and nothing else,
\* whatever the mode and the clock source.
C12_StopBits ==
    InitReturned =>
        /\ "WORD_LENGTH_8" \in LCR
        /\ "STOP" \in LCR <=> U32Lt(U32Of(1000000), baud)
        /\ LCR \subseteq {"WORD_LENGTH_8", "STOP"}

C12_Witness ==
    /\ InitReturned
    /\ baud = U32Of(1000000)
    /\ LCR = {"WORD_LENGTH_8"}
    /\ clk_type
    /\ mode # {}

\* the hardware steps of uart_init(idx, baud, m), in order
InitOrder(m) ==
    (IF m \cap {"CTS_EN", "DTR"} = {} THEN <<"TX_IDLE">> ELSE <<>>)
        \o <<"clock", "IER", "LCR_DLAB", "DLL", "DLM", "LCR", "FCR", "usleep",
             "MCR_0", "usleep", "FCR_CLR", "MCR_mode", "usleep", "TX_IDLE",
             "RX_RDYR">>

\* the steps of uart_init are made in the order of InitOrder, the first
\* delay is 20 us and the second 96 us
C15_StepOrder ==
    (op = "uart_init") =>
        /\ IsPrefix(steps, InitOrder(mode))
        /\ pc = "idle" => steps = InitOrder(mode)
        /\ pc = "init_57" => tmr = U32Of(20)
        /\ pc \in {"init_61", "init_64", "init_67"} => tmr = U32Of(20 + 96)

\* 1000000 / baud rounded up; 1 from 2^20 on
CeilMillion(b) ==
    IF b.hi >= 2 ^ 4
    THEN 1
    ELSE LET n == b.hi * Half + b.lo IN (1000000 + n - 1) \div n

\* C15: uart_init makes its hardware steps in the order: wait for the idle
\* transmitter unless mode has CTS_EN or DTR; clock; IER := 0; LCR := DLAB |
\* 8 bit; divisor LSB and MSB, into the latch; LCR := stop | 8 bit; FCR :=
\* EN_FIFO, 20 us; MCR := 0, 96 us; FCR := EN_FIFO | TX_CLR | RX_CLR; MCR :=
\* mode; a delay of 3 * ceil(1000000 / baud) us; the final wait.
C15_Original ==
    /\ C15_StepOrder
    /\ InitReturned => tmr = U32Of(20 + 96 + 3 * CeilMillion(baud))

\* C16: when uart_init has returned, DLAB is clear in LCR, IER is 0 and the
\* divisor bytes are in the latch, the FIFO is enabled, MCR is the caller's
\* mode, and the last two steps of the call were an LSR read that showed the
\* transmitter idle and then one that showed data-ready clear, which is the
\* last LSR read of the call and leaves the receive FIFO empty.
C16_Usable ==
    InitReturned =>
        /\ "DLAB" \notin LCR
        /\ IER = 0
        /\ Latched = div.lo
        /\ "EN_FIFO" \in FCR
        /\ MCR = mode
        /\ SubSeq(steps, Len(steps) - 1, Len(steps)) = <<"TX_IDLE", "RX_RDYR">>
        /\ "TMTY" \in seenLsr
        /\ lastLsr # NoRead
        /\ "RDR" \notin lastLsr
        /\ rx = <<>>

\* a call with flow control, during which the line delivered all it could
C16_Witness ==
    /\ InitReturned
    /\ mode = {"CTS_EN", "RTS_EN"}
    /\ MCR = {"CTS_EN", "RTS_EN"}
    /\ Len(injected) = MaxArrive
    /\ lcr_stop = {"STOP"}

(***************************************************************************)
(* uart_send and uart_wait_xfer called on their own, on a port whose       *)
(* transmitter works or is wedged for good.                                *)
(***************************************************************************)
\* the buffers sent: every sequence of at most MaxLen bytes
SendBufs == UNION { [1 .. n -> ByteSet] : n \in 0 .. MaxLen }

WaitSet == SUBSET {"TX_IDLE", "RX_RDYR"}

\* the call: uart_send(idx, buf, len)
uart_send_call == \E b \in SendBufs : uart_send_enter(b)

\* the call: uart_wait_xfer(idx, which)
uart_wait_xfer_call ==
    /\ pc = "idle"
    /\ op' = "uart_wait_xfer"
    /\ \E w \in WaitSet :
          /\ wwhich' = w
          /\ pc' = WaitEntry(w, "idle")
    /\ wret' = "idle"
    /\ NoneRead
    /\ UNCHANGED <<hwVars, recvRest, cfgRegs, txVars, initVars, sendVars>>

InitXfer ==
    /\ MCR = {}
    /\ IRDA_CSR = {}
    /\ rx \in {<<>>, <<84>>}
    /\ tmr = U32Zero
    /\ LCR = {"WORD_LENGTH_8"}
    /\ IER = 0
    /\ DLL = 0
    /\ DLM = 0
    /\ FCR = {"EN_FIFO"}
    /\ tx \in {<<>>, <<10>>}
    /\ txShift \in {<<>>, <<13>>}
    /\ loopback = FALSE
    /\ rxCap = FifoDepth
    /\ stuck \in BOOLEAN
    /\ InitLocals

XferDriver ==
    \/ uart_send_call
    \/ uart_send
    \/ uart_wait_xfer_call
    \/ uart_wait_xfer

NextXfer ==
    \/ XferDriver
    \/ HwTxLoad
    \/ HwTxOut
    \/ HwRx(84)

SpecXfer == InitXfer /\ [][NextXfer]_vars

\* The driver runs, and a transmitter that is not wedged sends what it holds.
FairSpecXfer ==
    /\ SpecXfer
    /\ WF_vars(XferDriver)
    /\ WF_vars(HwTxLoad)
    /\ WF_vars(HwTxOut)

SendReturned == op = "uart_send" /\ pc = "idle"

\* C13: uart_send writes buf[0], buf[1], ... in order, one byte per write:
\* after k writes the bytes written are buf[0 .. k-1]; a write is made only
\* when the access before it was an LSR read that showed THRE set; the call
\* returns when exactly len bytes are written; with len = 0 it returns
\* without having accessed any register.
C13_SendOrder ==
    (op = "uart_send") =>
        /\ slen = Len(sbuf)
        /\ si <= slen
        /\ sent = SubSeq(sbuf, 1, si)
        /\ pc = "send_94" => lastLsr # NoRead /\ "THRE" \in lastLsr
        /\ pc = "idle" => si = slen /\ sent = sbuf
        /\ slen = 0 => pc = "idle" /\ ~touched /\ lastLsr = NoRead

C13_Witness ==
    /\ SendReturned
    /\ slen = 2
    /\ sent = <<84, 65>>
    /\ "THRE" \in seenLsr
    /\ touched

\* C14, the safe half: uart_send with len > 0 has written a byte or
\* returned only if an LSR read of the call showed THRE set, and
\* uart_wait_xfer with TX_IDLE has returned only if one showed the
\* transmitter idle; so on a wedged transmitter whose FIFO holds a byte from
\* before the call uart_send has not returned, and on one that holds a byte
\* anywhere uart_wait_xfer with TX_IDLE has not returned.
C14_HangSafe ==
    /\ (op = "uart_send" /\ slen > 0 /\ (pc = "idle" \/ sent # <<>>)) =>
           "THRE" \in seenLsr
    /\ (op = "uart_wait_xfer" /\ WaitsTx(wwhich) /\ pc = "idle") =>
           "TMTY" \in seenLsr
    /\ (stuck /\ ~LSR_THRE /\ op = "uart_send" /\ slen > 0 /\ sent = <<>>) =>
           pc # "idle"
    /\ (stuck /\ ~LSR_TMTY /\ op = "uart_wait_xfer" /\ WaitsTx(wwhich)) =>
           pc # "idle"

\* C14: and when the transmitter is not wedged, both calls return.
C14_HangOrReturn ==
    /\ []C14_HangSafe
    /\ (~stuck /\ pc # "idle") ~> (pc = "idle")

\* uart_send hangs: the wedged transmitter never shows THRE
C14_Witness ==
    /\ stuck
    /\ op = "uart_send"
    /\ pc = "send_92"
    /\ lastLsr # NoRead
    /\ "THRE" \notin lastLsr
    /\ sent = <<>>

(***************************************************************************)
(* uart_get_IIR                                                            *)
(***************************************************************************)
\* the number whose 1 bits are at the positions in b
RECURSIVE BitsValue(_)
BitsValue(b) ==
    IF b = {} THEN 0
    ELSE LET k == CHOOSE x \in b : TRUE IN 2 ^ k + BitsValue(b \ {k})

\* x >> 1
ShiftRight1(b) == { k - 1 : k \in b \ {0} }

\* the encoding without its + 1
GetIIR_NoPlus(reg, mask, ni) ==
    LET iir == reg \cap mask
    IN  IF ni \in iir THEN 0 ELSE BitsValue(ShiftRight1(iir))

\* lines 151-156: iir = IIR_FCR & UART_IIR_INT_MASK;
\* if (iir & UART_IIR_NO_INT) return 0; else return (iir >> 1) + 1.
\* iir >> 1 is below 2^31, so the u32 sum does not wrap.
GetIIR(reg, mask, ni) ==
    LET iir == reg \cap mask
    IN  IF ni \in iir THEN 0 ELSE BitsValue(ShiftRight1(iir)) + 1

\* the call: uart_get_IIR(idx), one read of the register
uart_get_IIR ==
    /\ pc = "idle"
    /\ op' = "uart_get_IIR"
    /\ iirIn' = IIR
    /\ ret' = GetIIR(IIR, intMask, noInt)
    /\ UNCHANGED <<hwVars, pc, recvVars, histVars, invVars, cfgRegs, txVars, fifoVars,
                   progRest, IIR, intMask, noInt, mcrBy>>

\* the hardware raises or drops an interrupt cause
HwIir ==
    /\ IIR' \in SUBSET IirBits
    /\ IIR' # IIR
    /\ UNCHANGED <<hwVars, pc, op, ret, recvVars, histVars, invVars, cfgRegs, txVars,
                   fifoVars, progRest, intMask, noInt, iirIn, mcrBy>>

\* UART_IIR_INT_MASK and UART_IIR_NO_INT are given by uart.h: any mask and any
\* bit are taken
InitIir ==
    /\ MCR \in {{}, {"RTS"}}
    /\ IRDA_CSR = {}
    /\ rx = <<>>
    /\ tmr = U32Zero
    /\ InitRegs
    /\ InitDriver
    /\ noInt \in IirBits
    /\ intMask \in SUBSET IirBits
    /\ IIR \in SUBSET IirBits

NextIir ==
    \/ uart_get_IIR
    \/ HwIir

SpecIir == InitIir /\ [][NextIir]_vars

\* the masked value the last call worked on
IirMasked == iirIn \cap intMask

C17_Value ==
    op = "uart_get_IIR" =>
        /\ ret = 0 <=> noInt \in IirMasked
        /\ noInt \notin IirMasked =>
              /\ ret = (BitsValue(IirMasked) \div 2) + 1
              /\ ret # 0

\* C17: uart_get_IIR returns 0 exactly when the "no interrupt pending" bit of
\* the masked register value is set, and otherwise (iir >> 1) + 1 for the
\* masked value iir, which is never 0; the call writes no register.
C17_GetIIR ==
    /\ []C17_Value
    /\ [][op' = "uart_get_IIR" =>
             UNCHANGED <<MCR, IRDA_CSR, LCR, IER, DLL, DLM, FCR, rx, tx, txShift>>]_vars

\* the masked value is 0: no cause bit and no "no interrupt pending" bit
C17_Witness ==
    /\ op = "uart_get_IIR"
    /\ iirIn # {}
    /\ IirMasked = {}
    /\ ret = 1

(***************************************************************************)
(* uart_set_mode, and MCR across calls                                     *)
(***************************************************************************)
\* the call: uart_set_mode(idx, m); line 143: uart->UART_MCR = mode
uart_set_mode(m) ==
    /\ pc = "idle"
    /\ op' = "uart_set_mode"
    /\ MCR' = m
    /\ mcrBy' = "uart_set_mode"
    /\ UNCHANGED <<IRDA_CSR, rx, tmr, pc, ret, recvVars, histVars, invVars, cfgRegs,
                   txVars, fifoVars, progRest, iirVars>>

InitMode ==
    /\ MCR = {}
    /\ IRDA_CSR = {}
    /\ rx = <<>>
    /\ tmr = U32Zero
    /\ InitRegs
    /\ InitLocals

\* the last call has returned and was one of f
After(f) == pc = "idle" /\ op \in f

\* The calls, one at a time: uart_init or uart_set_mode, then uart_empty_fifo,
\* then uart_recv any number of times, then uart_init or uart_set_mode again.
\* uart_empty_fifo is called once in a behaviour (which is still 0 before it),
\* to clear one FIFO or both.
ModeDriver ==
    \/ /\ After({"none", "uart_empty_fifo", "uart_recv"})
       /\ \E m \in ModeSet : uart_init_enter(U32Of(115200), m, U32Zero)
    \/ /\ After({"none", "uart_empty_fifo", "uart_recv"})
       /\ \E m \in ModeSet : uart_set_mode(m)
    \/ /\ After({"uart_init", "uart_set_mode"})
       /\ which = {}
       /\ \E w \in (SUBSET {"RX_CLR", "TX_CLR"}) \ {{}} : uart_empty_fifo_enter(w, U32Zero)
    \/ /\ After({"uart_empty_fifo", "uart_recv"})
       /\ mcrBy = "uart_empty_fifo"
       /\ uart_recv_enter(1, U32Zero)
    \/ uart_init
    \/ uart_wait_xfer
    \/ uart_empty_fifo
    \/ uart_recv

\* the counter is read by uart_recv alone: it is let run during uart_recv
NextMode ==
    \/ ModeDriver
    \/ op = "uart_recv" /\ pc # "idle" /\ \E d \in TickSet : Tick(d)
    \/ HwRx(84)

SpecMode == InitMode /\ [][NextMode]_vars

C18_McrZero ==
    mcrBy = "uart_empty_fifo" =>
        /\ pc # "fifo_173" => MCR = {}
        /\ op = "uart_recv" => ~manual_mode /\ mcrWrites = 0

\* C18: once uart_empty_fifo has written MCR = 0, MCR is 0 until uart_set_mode
\* or uart_init is called; a uart_recv in between finds RTS clear and writes
\* MCR not at all; and no step of uart_empty_fifo sets a return value,
\* whether its polls saw the FIFOs drained or gave up.
C18_FlowOff ==
    /\ []C18_McrZero
    /\ [][op' = "uart_empty_fifo" => ret' = ret]_vars

\* uart_init with RTS in mode, then uart_empty_fifo, whose receiver loop gave
\* up, then a uart_recv that returned the byte left in the FIFO
C18_Witness ==
    /\ RecvReturned
    /\ mcrBy = "uart_empty_fifo"
    /\ "RTS" \in mode
    /\ gaveUp = {"RX"}
    /\ ret = 1
    /\ MCR = {}

=============================================================================
